---- MODULE Spec2Model ----
(***************************************************************************)
(* Flight search of the travel assistant: src/src/flight_search.py and the *)
(* helpers of src/src/utils.py it calls.                                   *)
(*                                                                         *)
(* Python values are modelled as tagged records: None is PyNone, any other *)
(* value x is Val(x), float('inf') is PyInf, and a key that a flight dict  *)
(* does not hold is Absent.  Strings are sequences of one-character        *)
(* strings, so that lower() and the substring test "a in b" are computed.  *)
(***************************************************************************)
EXTENDS Integers, Sequences, FiniteSets, TLC

\* ------------------------------------------------------------------ bounds
\* Longest catalog (number of flight records in the loaded file).
MaxFlights == 2
\* Largest number of criteria fields a caller sets in one search call.
MaxSetFields == 2
\* Number of concurrent callers of the one FlightSearcher.
NumCallers == 2
\* Longest list of flights handed to format_flights_list on its own.
MaxRanked == 8
\* Most fragments a query text handed to the criteria extraction is made of.
MaxFragments == 2

\* ------------------------------------------------------------ Python values
PyNone == [kind |-> "none"]
PyInf == [kind |-> "inf"]
Absent == [kind |-> "absent"]
Val(x) == [kind |-> "val", v |-> x]

IsVal(x) == x.kind = "val"

\* dict.get(key, default): the default only when the key is absent; a key
\* holding None yields None.
DictGet(f, key, default) == IF f[key].kind = "absent" THEN default ELSE f[key]

\* ------------------------------------------------------------------ strings
UpperChars == <<"A","B","C","D","E","F","G","H","I","J","K","L","M",
                "N","O","P","Q","R","S","T","U","V","W","X","Y","Z">>
LowerChars == <<"a","b","c","d","e","f","g","h","i","j","k","l","m",
                "n","o","p","q","r","s","t","u","v","w","x","y","z">>

\* The lower-case letter of each upper-case letter.
UpperToLower ==
    [c \in {UpperChars[i] : i \in 1..Len(UpperChars)} |->
        LowerChars[CHOOSE i \in 1..Len(UpperChars) : UpperChars[i] = c]]

LowerChar(c) == IF c \in DOMAIN UpperToLower THEN UpperToLower[c] ELSE c

\* str.lower()
Lower(s) == [i \in 1..Len(s) |-> LowerChar(s[i])]

\* needle in hay (Python's substring test; the empty string is in every string)
Contains(hay, needle) ==
    \E i \in 0..(Len(hay) - Len(needle)) :
        SubSeq(hay, i + 1, i + Len(needle)) = needle

Empty == << >>
Dubai == <<"D","u","b","a","i">>
DubaiDXB == <<"D","u","b","a","i"," ","(","D","X","B",")">>
London == <<"L","o","n","d","o","n">>
Paris == <<"P","a","r","i","s">>
Tokyo == <<"T","o","k","y","o">>
StarAlliance == <<"S","t","a","r"," ","A","l","l","i","a","n","c","e">>
Oneworld == <<"O","n","e","w","o","r","l","d">>
Emirates == <<"E","m","i","r","a","t","e","s">>
ANA == <<"A","N","A">>
Doha == <<"D","o","h","a">>
Seoul == <<"S","e","o","u","l">>
\* lower-case spellings a caller may pass
dubai == <<"d","u","b","a","i">>
paris == <<"p","a","r","i","s">>
star == <<"s","t","a","r">>
emirates == <<"e","m","i","r","a","t","e","s">>

\* -------------------------------------------------------------------- dates
Digits == <<"0","1","2","3","4","5","6","7","8","9">>
IsDigit(c) == \E i \in 1..10 : Digits[i] = c
DigitVal(c) == (CHOOSE i \in 1..10 : Digits[i] = c) - 1

Date_2025_08_15 == <<"2","0","2","5","-","0","8","-","1","5">>
Date_2025_09_01 == <<"2","0","2","5","-","0","9","-","0","1">>
Date_2024_08_15 == <<"2","0","2","4","-","0","8","-","1","5">>
Date_2025_13_01 == <<"2","0","2","5","-","1","3","-","0","1">>
DateTBD == <<"T","B","D">>

\* dateutil's parser.parse on the date strings of the catalog, which are ISO
\* dates YYYY-MM-DD: the parsed date, or a failure (ValueError) for any other
\* text; a failure (TypeError) for a value that is not a string.
ParserParse(x) ==
    IF ~IsVal(x) THEN [ok |-> FALSE]
    ELSE LET s == x.v IN
         IF /\ Len(s) = 10
            /\ \A i \in {1, 2, 3, 4, 6, 7, 9, 10} : IsDigit(s[i])
            /\ s[5] = "-" /\ s[8] = "-"
         THEN LET y == 1000 * DigitVal(s[1]) + 100 * DigitVal(s[2])
                        + 10 * DigitVal(s[3]) + DigitVal(s[4])
                  m == 10 * DigitVal(s[6]) + DigitVal(s[7])
                  d == 10 * DigitVal(s[9]) + DigitVal(s[10])
              IN IF m \in 1..12 /\ d \in 1..31 /\ y >= 1
                 THEN [ok |-> TRUE, month |-> m, year |-> y]
                 ELSE [ok |-> FALSE]
         ELSE [ok |-> FALSE]

\* utils.parse_date: the parsed date, or None when parsing raises ValueError
\* or TypeError.
parse_date(x) == ParserParse(x)

\* ------------------------------------------------------------------ flights
\* A flight record of the catalog file: a dict.  Every key holds Absent (the
\* key is not in the dict), PyNone (JSON null) or Val(x).
Flight(id, frm, to, date, alliance, airline, price, refundable, overnight, layovers) ==
    [flight_id |-> id, from |-> frm, to |-> to, departure_date |-> date,
     alliance |-> alliance, airline |-> airline, price_usd |-> price,
     refundable |-> refundable, overnight_layover |-> overnight,
     layovers |-> layovers, return_date |-> Absent]

\* The flight records a catalog file is made of.  The first five and the last
\* follow the schema (every field of the right kind, or absent); the sixth and
\* the seventh are malformed (fields holding null, a date that is no date).
\* No record of the sample carries a return_date, which search never reads.
SampleFlights ==
    << Flight(Absent, Val(DubaiDXB), Val(Paris), Val(Date_2025_08_15),
              Val(StarAlliance), Val(ANA), Val(650), Val(TRUE), Val(FALSE),
              Val(<< >>)),
       Flight(Absent, Val(Dubai), Val(Tokyo), Val(Date_2025_09_01),
              Val(Oneworld), Val(Emirates), Val(900), Val(FALSE), Val(TRUE),
              Val(<<Doha>>)),
       Flight(Absent, Val(London), Val(Paris), Val(Date_2024_08_15),
              Val(Empty), Val(Emirates), Val(650), Absent, Absent,
              Val(<<Doha, Seoul>>)),
       Flight(Absent, Absent, Absent, Absent, Absent, Absent, Absent, Absent,
              Absent, Absent),
       Flight(Absent, Val(Dubai), Val(Paris), Val(DateTBD), Absent, Absent,
              Val(0), Val(TRUE), Val(FALSE), Absent),
       Flight(Absent, PyNone, PyNone, PyNone, PyNone, PyNone, PyNone, PyNone,
              PyNone, PyNone),
       Flight(Absent, Val(Dubai), Val(Tokyo), Val(Date_2025_13_01),
              Val(StarAlliance), Val(ANA), PyNone, Val(TRUE), Val(FALSE),
              PyNone),
       Flight(Absent, Val(London), Val(Tokyo), Val(Date_2025_08_15),
              Val(Oneworld), Val(ANA), Val(700), Val(FALSE), Absent,
              Val(<< >>)) >>

\* The catalog files that parse: every sequence of at most MaxFlights sample
\* flights, the i-th record carrying flight_id i.
RECURSIVE SeqsUpTo(_, _)
SeqsUpTo(S, n) ==
    IF n = 0 THEN {<< >>}
    ELSE LET shorter == SeqsUpTo(S, n - 1)
         IN shorter \cup {Append(q, x) : q \in {r \in shorter : Len(r) = n - 1}, x \in S}

CatalogsOf(S) ==
    {[i \in 1..Len(q) |-> [SampleFlights[q[i]] EXCEPT !.flight_id = Val(i)]] :
        q \in SeqsUpTo(S, MaxFlights)}

Catalogs == CatalogsOf(1..Len(SampleFlights))

\* What the catalog file (config.FLIGHTS_FILE) may be when the searcher is built.
CatalogFiles ==
    {[kind |-> "missing"], [kind |-> "invalid"]}
        \cup {[kind |-> "json", data |-> c] : c \in Catalogs}

\* Mutant of load_json_file: the error of a missing or unparseable file is
\* swallowed and an empty catalog returned.
load_json_file_swallow(file) ==
    IF file.kind = "json" THEN [raised |-> "none", value |-> file.data]
    ELSE [raised |-> "none", value |-> << >>]

\* utils.load_json_file: the parsed file, or the error it raises.
load_json_file(file) ==
    CASE file.kind = "missing" -> [raised |-> "FileNotFoundError"]
      [] file.kind = "invalid" -> [raised |-> "ValueError"]
      [] OTHER -> [raised |-> "none", value |-> file.data]

\* ----------------------------------------------------------------- criteria
\* The arguments of one FlightSearcher.search call; PyNone is an argument
\* left at its default None, refundable_only and avoid_overnight_layover
\* default to False.
NoCriteria ==
    [origin |-> PyNone, destination |-> PyNone, departure_month |-> PyNone,
     departure_year |-> PyNone, alliance |-> PyNone, airline |-> PyNone,
     max_price |-> PyNone, refundable_only |-> FALSE,
     avoid_overnight_layover |-> FALSE, max_layovers |-> PyNone]

OptionalFields ==
    {"origin", "destination", "departure_month", "departure_year", "alliance",
     "airline", "max_price", "max_layovers"}

\* The number of fields of c that the caller set.
SetCount(c) ==
    Cardinality({k \in OptionalFields : c[k] # PyNone})
        + (IF c.refundable_only THEN 1 ELSE 0)
        + (IF c.avoid_overnight_layover THEN 1 ELSE 0)

\* The criteria records over the argument values callers pass.
CriteriaSpace ==
    [origin : {PyNone, Val(dubai)},
     destination : {PyNone, Val(Paris)},
     departure_month : {PyNone, Val(8), Val(9)},
     departure_year : {PyNone, Val(2025)},
     alliance : {PyNone, Val(star)},
     airline : {PyNone, Val(emirates)},
     max_price : {PyNone, Val(0), Val(650), Val(700)},
     refundable_only : BOOLEAN,
     avoid_overnight_layover : BOOLEAN,
     max_layovers : {PyNone, Val(0), Val(1)}]

\* The criteria of the calls made: at most MaxSetFields fields set.
AllCriteria == {c \in CriteriaSpace : SetCount(c) <= MaxSetFields} \cup {}

\* Python truth value of an Optional[str] argument: set and not ''.
TruthyStr(x) == IsVal(x) /\ Len(x.v) > 0
\* Python truth value of an Optional[int] argument: set and not 0.
TruthyInt(x) == IsVal(x) /\ x.v # 0
\* Python truth value of a flag of a flight dict (True, False or None).
TruthyFlag(x) == IsVal(x) /\ x.v = TRUE

\* ---------------------------------------------------- criteria extraction
\* The phrases search_flights looks for in the lower-cased query.
k_from_dubai ==
    <<"f","r","o","m"," ","d","u","b","a","i">>
k_dubai_to ==
    <<"d","u","b","a","i"," ","t","o">>
k_star_alliance ==
    <<"s","t","a","r"," ","a","l","l","i","a","n","c","e">>
k_oneworld ==
    <<"o","n","e","w","o","r","l","d">>
k_skyteam ==
    <<"s","k","y","t","e","a","m">>
k_under ==
    <<"u","n","d","e","r">>
k_less_than ==
    <<"l","e","s","s"," ","t","h","a","n">>
k_below ==
    <<"b","e","l","o","w">>
k_refundable ==
    <<"r","e","f","u","n","d","a","b","l","e">>
k_avoid_overnight ==
    <<"a","v","o","i","d"," ","o","v","e","r","n","i","g","h","t">>
k_no_overnight ==
    <<"n","o"," ","o","v","e","r","n","i","g","h","t">>
k_direct ==
    <<"d","i","r","e","c","t">>
k_non_stop ==
    <<"n","o","n","-","s","t","o","p">>
k_nonstop ==
    <<"n","o","n","s","t","o","p">>
k_1_layover ==
    <<"1"," ","l","a","y","o","v","e","r">>
k_one_layover ==
    <<"o","n","e"," ","l","a","y","o","v","e","r">>

\* The destinations search_flights knows, in the order it tests them.
destinations ==
    << <<"t","o","k","y","o">>,
       <<"p","a","r","i","s">>,
       <<"l","o","n","d","o","n">>,
       <<"n","e","w"," ","y","o","r","k">>,
       <<"b","a","n","g","k","o","k">>,
       <<"h","o","n","g"," ","k","o","n","g">>,
       <<"s","e","o","u","l">>,
       <<"t","a","i","p","e","i">>,
       <<"t","o","r","o","n","t","o">>,
       <<"h","e","l","s","i","n","k","i">>,
       <<"z","u","r","i","c","h">>,
       <<"k","u","a","l","a"," ","l","u","m","p","u","r">> >>

\* The month names of extract_month_year, in the order of its table; the
\* i-th name is month i.
months ==
    << <<"j","a","n","u","a","r","y">>,
       <<"f","e","b","r","u","a","r","y">>,
       <<"m","a","r","c","h">>,
       <<"a","p","r","i","l">>,
       <<"m","a","y">>,
       <<"j","u","n","e">>,
       <<"j","u","l","y">>,
       <<"a","u","g","u","s","t">>,
       <<"s","e","p","t","e","m","b","e","r">>,
       <<"o","c","t","o","b","e","r">>,
       <<"n","o","v","e","m","b","e","r">>,
       <<"d","e","c","e","m","b","e","r">> >>

SkyTeam == <<"S","k","y","T","e","a","m">>

\* The upper-case letter of each lower-case letter.
LowerToUpper ==
    [c \in {LowerChars[i] : i \in 1..Len(LowerChars)} |->
        UpperChars[CHOOSE i \in 1..Len(LowerChars) : LowerChars[i] = c]]

IsLetter(c) == c \in DOMAIN LowerToUpper \/ c \in DOMAIN UpperToLower

\* Mutant of Title: the string as it is.
TitleUnchanged(s) == s

\* str.title(): the first letter of every word in upper case, the other
\* letters in lower case.
Title(s) ==
    [i \in 1..Len(s) |->
        IF i = 1 \/ ~IsLetter(s[i - 1])
        THEN (IF s[i] \in DOMAIN LowerToUpper THEN LowerToUpper[s[i]] ELSE s[i])
        ELSE LowerChar(s[i])]

\* Mutant of FirstContained: the last index of seq whose entry occurs in text.
LastContained(text, seq) ==
    IF \E i \in 1..Len(seq) : Contains(text, seq[i])
    THEN CHOOSE i \in 1..Len(seq) :
             /\ Contains(text, seq[i])
             /\ \A j \in (i + 1)..Len(seq) : ~Contains(text, seq[j])
    ELSE 0

\* The first index of seq whose entry occurs in text, 0 if none does.
FirstContained(text, seq) ==
    IF \E i \in 1..Len(seq) : Contains(text, seq[i])
    THEN CHOOSE i \in 1..Len(seq) :
             /\ Contains(text, seq[i])
             /\ \A j \in 1..(i - 1) : ~Contains(text, seq[j])
    ELSE 0

\* Mutant of extract_month_year: the month without the year.
extract_month_only(text, current_year) ==
    LET m == FirstContained(Lower(text), months)
    IN IF m # 0 THEN [month |-> Val(m), year |-> PyNone]
       ELSE [month |-> PyNone, year |-> PyNone]

\* utils.extract_month_year: the first month of the table whose name occurs
\* in the lower-cased text, with the current year; (None, None) otherwise.
extract_month_year(text, current_year) ==
    LET m == FirstContained(Lower(text), months)
    IN IF m # 0 THEN [month |-> Val(m), year |-> Val(current_year)]
       ELSE [month |-> PyNone, year |-> PyNone]

\* The number a digit string denotes.
RECURSIVE DigitsValue(_)
DigitsValue(ds) ==
    IF ds = << >> THEN 0
    ELSE 10 * DigitsValue(SubSeq(ds, 1, Len(ds) - 1)) + DigitVal(ds[Len(ds)])

\* re.search(r'\$?(\d{3,4})', query): group 1 of the leftmost match, the
\* first three consecutive digits of the text with a fourth if one follows;
\* None when the text has no three consecutive digits.
PriceMatch(query) ==
    LET starts == {p \in 1..(Len(query) - 2) :
                      IsDigit(query[p]) /\ IsDigit(query[p + 1]) /\ IsDigit(query[p + 2])}
    IN IF starts = {} THEN PyNone
       ELSE LET p == CHOOSE x \in starts : \A y \in starts : x <= y
                n == IF p + 3 <= Len(query) /\ IsDigit(query[p + 3]) THEN 4 ELSE 3
            IN Val(SubSeq(query, p, p + n - 1))

\* Mutant of ExtractMaxLayovers: the layover count phrases tested first.
ExtractMaxLayoversCountFirst(query_lower) ==
    IF \/ Contains(query_lower, k_1_layover)
       \/ Contains(query_lower, k_one_layover)
    THEN Val(1)
    ELSE IF \/ Contains(query_lower, k_direct)
            \/ Contains(query_lower, k_non_stop)
            \/ Contains(query_lower, k_nonstop)
    THEN Val(0) ELSE PyNone

\* search_flights, lines 213-218: max_layovers.
ExtractMaxLayovers(query_lower) ==
    IF \/ Contains(query_lower, k_direct)
       \/ Contains(query_lower, k_non_stop)
       \/ Contains(query_lower, k_nonstop)
    THEN Val(0)
    ELSE IF \/ Contains(query_lower, k_1_layover)
            \/ Contains(query_lower, k_one_layover)
    THEN Val(1) ELSE PyNone

\* search_flights, lines 168-218: the criteria it passes to search for a
\* query, current_year being datetime.now().year.
ExtractCriteria(query, current_year) ==
    LET query_lower == Lower(query)
        dest == FirstContained(query_lower, destinations)
        my == extract_month_year(query, current_year)
        price_match == PriceMatch(query)
    IN [origin |-> IF Contains(query_lower, k_from_dubai)
                      \/ Contains(query_lower, k_dubai_to)
                   THEN Val(Dubai) ELSE PyNone,
        destination |-> IF dest # 0 THEN Val(Title(destinations[dest])) ELSE PyNone,
        departure_month |-> my.month,
        departure_year |-> my.year,
        alliance |-> IF Contains(query_lower, k_star_alliance) THEN Val(StarAlliance)
                     ELSE IF Contains(query_lower, k_oneworld) THEN Val(Oneworld)
                     ELSE IF Contains(query_lower, k_skyteam) THEN Val(SkyTeam)
                     ELSE PyNone,
        airline |-> PyNone,
        max_price |-> IF (\/ Contains(query_lower, k_under)
                          \/ Contains(query_lower, k_less_than)
                          \/ Contains(query_lower, k_below))
                         /\ price_match # PyNone
                      THEN Val(DigitsValue(price_match.v)) ELSE PyNone,
        refundable_only |-> Contains(query_lower, k_refundable),
        avoid_overnight_layover |-> \/ Contains(query_lower, k_avoid_overnight)
                                    \/ Contains(query_lower, k_no_overnight),
        max_layovers |-> ExtractMaxLayovers(query_lower)]

\* Queries put to the search_flights tool.
Q_TokyoAugustStar ==
    <<"F","i","n","d"," ","f","l","i","g","h","t","s"," ","f","r","o","m",
      " ","D","u","b","a","i"," ","t","o"," ","T","o","k","y","o"," ","i",
      "n"," ","A","u","g","u","s","t"," ","w","i","t","h"," ","S","t","a",
      "r"," ","A","l","l","i","a","n","c","e">>
Q_DirectParisUnder ==
    <<"S","h","o","w"," ","m","e"," ","d","i","r","e","c","t"," ","f","l",
      "i","g","h","t","s"," ","t","o"," ","P","a","r","i","s"," ","u","n",
      "d","e","r"," ","$","7","0","0">>
Q_RefundableParis ==
    <<"r","e","f","u","n","d","a","b","l","e"," ","f","l","i","g","h","t",
      "s"," ","t","o"," ","P","a","r","i","s">>
Q_Anything ==
    <<"f","l","i","g","h","t","s">>

Queries == {Q_TokyoAugustStar, Q_DirectParisUnder, Q_RefundableParis, Q_Anything}

\* The years datetime.now().year may yield while the assistant runs.
ClockYears == {2025, 2026}

\* The criteria search_flights passes to search for the queries of Q.
ExtractedCriteria(Q) == {ExtractCriteria(q, y) : q \in Q, y \in ClockYears}

QueryCriteria == ExtractedCriteria(Queries)

\* ------------------------------------------------------------------ filters
\* The flight dicts that json.load creates are objects on the heap; a list
\* (self.flights, the local results) holds references to them, modelled as
\* their indices in objs.
\*
\* The progress of one search call is a record st:
\*   results  the list that the local name results is bound to
\*   aliased  whether that list is the list object self.flights itself
\*   flights  the list self.flights
\*   raised   the exception raised so far, "none" while running

\* Mutant of Comprehension: the filtered list is stored in self.flights as
\* well, so the catalog narrows with every filter.
ComprehensionOnCatalog(st, exc, raising, kept) ==
    IF \E i \in 1..Len(st.results) : st.results[i] \in raising
    THEN [st EXCEPT !.raised = exc]
    ELSE [st EXCEPT !.results = SelectSeq(st.results, LAMBDA r : r \in kept),
                    !.flights = SelectSeq(st.results, LAMBDA r : r \in kept),
                    !.aliased = FALSE]

\* One list comprehension `results = [f for f in results if cond(f)]`, given
\* the records for which evaluating cond raises and those for which it is
\* true: a new list of the records kept, in order, bound to the local name
\* results alone; a raising record in the list ends the call with exception exc.
Comprehension(st, exc, raising, kept) ==
    IF \E i \in 1..Len(st.results) : st.results[i] \in raising
    THEN [st EXCEPT !.raised = exc]
    ELSE [st EXCEPT !.results = SelectSeq(st.results, LAMBDA r : r \in kept),
                    !.aliased = FALSE]

\* wanted_lower in f.get(key, '').lower(): a key holding None raises
\* AttributeError (None has no lower()).
SubstringRaises(f, key) == DictGet(f, key, Val(Empty)) = PyNone
SubstringKeeps(f, key, wanted) ==
    LET v == DictGet(f, key, Val(Empty))
    IN IsVal(v) /\ Contains(Lower(v.v), Lower(wanted))

\* Mutant of matches_date: the year is not compared.
matches_date_month_only(date_str, month, year) ==
    LET date_obj == parse_date(date_str)
    IN IF ~date_obj.ok THEN FALSE
       ELSE date_obj.month = month

\* FlightSearcher._matches_date
matches_date(date_str, month, year) ==
    LET date_obj == parse_date(date_str)
    IN IF ~date_obj.ok THEN FALSE
       ELSE date_obj.month = month /\ date_obj.year = year

\* Mutant of PriceKeeps: a missing price defaults to 0 instead of inf.
PriceKeepsDefaultZero(f, max_price) ==
    LET p == DictGet(f, "price_usd", Val(0))
    IN IsVal(p) /\ p.v <= max_price

\* f.get('price_usd', float('inf')) <= max_price: None <= number raises
\* TypeError; inf is above every ceiling.
PriceRaises(f) == DictGet(f, "price_usd", PyInf) = PyNone
PriceKeeps(f, max_price) ==
    LET p == DictGet(f, "price_usd", PyInf)
    IN IsVal(p) /\ p.v <= max_price

\* Mutant of RefundableKeeps: a missing refundable field defaults to True.
RefundableKeepsDefaultTrue(f) == TruthyFlag(DictGet(f, "refundable", Val(TRUE)))

\* f.get('refundable', False), taken as a condition.
RefundableKeeps(f) == TruthyFlag(DictGet(f, "refundable", Val(FALSE)))

\* not f.get('overnight_layover', False)
\* Mutant of OvernightKeeps: a flight is kept only if it says it has no
\* overnight layover.
OvernightKeepsIfDenied(f) == DictGet(f, "overnight_layover", PyNone) = Val(FALSE)

OvernightKeeps(f) == ~TruthyFlag(DictGet(f, "overnight_layover", Val(FALSE)))

\* len(f.get('layovers', [])) <= max_layovers: len(None) raises TypeError.
LayoversRaises(f) == DictGet(f, "layovers", Val(<< >>)) = PyNone
LayoversKeeps(f, max_layovers) ==
    LET v == DictGet(f, "layovers", Val(<< >>))
    IN IsVal(v) /\ Len(v.v) <= max_layovers

\* The filter on the string field key, for a wanted substring.
FilterSubstring(objs, st, key, wanted) ==
    Comprehension(st, "AttributeError",
                  {i \in DOMAIN objs : SubstringRaises(objs[i], key)},
                  {i \in DOMAIN objs : SubstringKeeps(objs[i], key, wanted)})

FilterOrigin(objs, st, c) ==
    IF st.raised # "none" \/ ~TruthyStr(c.origin) THEN st
    ELSE FilterSubstring(objs, st, "from", c.origin.v)

FilterDestination(objs, st, c) ==
    IF st.raised # "none" \/ ~TruthyStr(c.destination) THEN st
    ELSE FilterSubstring(objs, st, "to", c.destination.v)

\* `if departure_month and departure_year`: the date filter runs only when
\* both arguments are set (and neither is 0).
DateFilterApplies(c) == TruthyInt(c.departure_month) /\ TruthyInt(c.departure_year)

FilterDate(objs, st, c) ==
    IF st.raised # "none" \/ ~DateFilterApplies(c) THEN st
    ELSE Comprehension(st, "none", {},
                       {i \in DOMAIN objs :
                           matches_date(DictGet(objs[i], "departure_date", PyNone),
                                        c.departure_month.v, c.departure_year.v)})

FilterAlliance(objs, st, c) ==
    IF st.raised # "none" \/ ~TruthyStr(c.alliance) THEN st
    ELSE FilterSubstring(objs, st, "alliance", c.alliance.v)

FilterAirline(objs, st, c) ==
    IF st.raised # "none" \/ ~TruthyStr(c.airline) THEN st
    ELSE FilterSubstring(objs, st, "airline", c.airline.v)

FilterPrice(objs, st, c) ==
    IF st.raised # "none" \/ c.max_price = PyNone THEN st
    ELSE Comprehension(st, "TypeError",
                       {i \in DOMAIN objs : PriceRaises(objs[i])},
                       {i \in DOMAIN objs : PriceKeeps(objs[i], c.max_price.v)})

FilterRefundable(objs, st, c) ==
    IF st.raised # "none" \/ ~c.refundable_only THEN st
    ELSE Comprehension(st, "none", {},
                       {i \in DOMAIN objs : RefundableKeeps(objs[i])})

FilterOvernight(objs, st, c) ==
    IF st.raised # "none" \/ ~c.avoid_overnight_layover THEN st
    ELSE Comprehension(st, "none", {},
                       {i \in DOMAIN objs : OvernightKeeps(objs[i])})

FilterLayovers(objs, st, c) ==
    IF st.raised # "none" \/ c.max_layovers = PyNone THEN st
    ELSE Comprehension(st, "TypeError",
                       {i \in DOMAIN objs : LayoversRaises(objs[i])},
                       {i \in DOMAIN objs : LayoversKeeps(objs[i], c.max_layovers.v)})

\* The nine filters of search, in the order the code applies them.
ApplyFilters(objs, st, c) ==
    LET s1 == FilterOrigin(objs, st, c)
        s2 == FilterDestination(objs, s1, c)
        s3 == FilterDate(objs, s2, c)
        s4 == FilterAlliance(objs, s3, c)
        s5 == FilterAirline(objs, s4, c)
        s6 == FilterPrice(objs, s5, c)
        s7 == FilterRefundable(objs, s6, c)
        s8 == FilterOvernight(objs, s7, c)
    IN FilterLayovers(objs, s8, c)

\* --------------------------------------------------------------------- sort
\* Mutant of SortKey: a missing price defaults to 0 instead of inf.
SortKeyDefaultZero(f) == DictGet(f, "price_usd", Val(0))

\* The sort key: lambda x: x.get('price_usd', float('inf')).
SortKey(f) == DictGet(f, "price_usd", PyInf)

\* a <= b on two keys that are numbers or inf.
KeyLeq(a, b) == b = PyInf \/ (IsVal(a) /\ IsVal(b) /\ a.v <= b.v)

\* x placed behind the last element whose key is not above its own.
RECURSIVE InsertByKey(_, _, _)
InsertByKey(objs, sorted, x) ==
    IF sorted = << >> THEN <<x>>
    ELSE LET last == sorted[Len(sorted)]
         IN IF KeyLeq(SortKey(objs[last]), SortKey(objs[x]))
            THEN Append(sorted, x)
            ELSE Append(InsertByKey(objs, SubSeq(sorted, 1, Len(sorted) - 1), x), last)

\* list.sort(key=...) of comparable keys: ascending and stable.
RECURSIVE SortedByKey(_, _)
SortedByKey(objs, list) ==
    IF list = << >> THEN << >>
    ELSE InsertByKey(objs, SortedByKey(objs, SubSeq(list, 1, Len(list) - 1)),
                     list[Len(list)])

\* Comparing None with a number (or with None) raises TypeError: a list of two
\* or more records, one with a null price, cannot be sorted.
SortRaises(objs, list) ==
    Len(list) >= 2 /\ \E i \in 1..Len(list) : SortKey(objs[list[i]]) = PyNone

\* results.sort(key=...): sorts the list object in place, so self.flights too
\* when results is that very object.
SortInPlace(objs, st) ==
    IF SortRaises(objs, st.results)
    THEN [st EXCEPT !.raised = "TypeError"]
    ELSE LET sorted == SortedByKey(objs, st.results)
         IN [st EXCEPT !.results = sorted,
                       !.flights = IF st.aliased THEN sorted ELSE st.flights]

\* --------------------------------------------------------------- formatting
\* The literal pieces of the texts format_flight and format_flights_list build.
NoFlightsMessage ==
    <<"N","o"," ","f","l","i","g","h","t","s"," ","f","o","u","n","d"," ",
      "m","a","t","c","h","i","n","g"," ","y","o","u","r"," ","c","r","i",
      "t","e","r","i","a",".">>
t_NA ==
    <<"N","/","A">>
t_None ==
    <<"N","o","n","e">>
t_Yes ==
    <<"Y","e","s">>
t_No ==
    <<"N","o">>
t_Found ==
    <<"F","o","u","n","d"," ">>
t_flights ==
    <<" ","f","l","i","g","h","t","(","s",")",":","\n">>
t_ShowingTop ==
    <<"\n","(","S","h","o","w","i","n","g"," ","t","o","p"," ">>
t_of ==
    <<" ","o","f"," ">>
t_results ==
    <<" ","r","e","s","u","l","t","s",")">>
t_Flight ==
    <<"\n","F","l","i","g","h","t"," ">>
t_Airline ==
    <<":","\n"," "," ","A","i","r","l","i","n","e",":"," ">>
t_Route ==
    <<")","\n"," "," ","R","o","u","t","e",":"," ">>
t_arrow ==
    <<" ","→"," ">>
t_Layovers ==
    <<"\n"," "," ","L","a","y","o","v","e","r","s",":"," ">>
t_overnight ==
    <<" ","(","o","v","e","r","n","i","g","h","t",")">>
t_Dates ==
    <<"\n"," "," ","D","a","t","e","s",":"," ">>
t_to ==
    <<" ","t","o"," ">>
t_Price ==
    <<"\n"," "," ","P","r","i","c","e",":"," ","$">>
t_Refundable ==
    <<" ","U","S","D","\n"," "," ","R","e","f","u","n","d","a","b","l","e",
      ":"," ">>
t_comma ==
    <<","," ">>
t_open ==
    <<" ","(">>
t_newline ==
    <<"\n">>

\* s * k: k copies of the string s, none when k <= 0.
RECURSIVE Repeat(_, _)
Repeat(s, k) == IF k <= 0 THEN << >> ELSE s \o Repeat(s, k - 1)

\* str(n) of an integer.
RECURSIVE NatStr(_)
NatStr(n) ==
    IF n < 10 THEN <<Digits[n + 1]>>
    ELSE NatStr(n \div 10) \o <<Digits[(n % 10) + 1]>>

IntStr(n) == IF n < 0 THEN <<"-">> \o NatStr(0 - n) ELSE NatStr(n)

\* What an f-string shows of flight.get(key, 'N/A'), for a key that holds a
\* string and for a key that holds an integer; None shows as "None".
ShownStr(flight, key) ==
    LET x == DictGet(flight, key, Val(t_NA))
    IN IF x = PyNone THEN t_None ELSE x.v

ShownInt(flight, key) ==
    LET x == DictGet(flight, key, PyNone)
    IN IF flight[key] = Absent THEN t_NA
       ELSE IF x = PyNone THEN t_None ELSE IntStr(x.v)

\* sep.join(list)
RECURSIVE Join(_, _)
Join(list, sep) ==
    IF list = << >> THEN << >>
    ELSE IF Len(list) = 1 THEN list[1]
    ELSE list[1] \o sep \o Join(Tail(list), sep)

\* The truth value of a list: None and the empty list are false.
TruthyList(x) == IsVal(x) /\ x.v # << >>

\* utils.format_flight: the block of one flight.
format_flight(flight) ==
    LET layover_str ==
            IF TruthyList(DictGet(flight, "layovers", PyNone))
            THEN t_Layovers \o Join(flight.layovers.v, t_comma)
                 \o (IF TruthyFlag(DictGet(flight, "overnight_layover", PyNone))
                     THEN t_overnight ELSE << >>)
            ELSE << >>
        refundable == IF TruthyFlag(DictGet(flight, "refundable", PyNone)) THEN t_Yes ELSE t_No
    IN t_Flight \o ShownInt(flight, "flight_id")
       \o t_Airline \o ShownStr(flight, "airline")
       \o t_open \o ShownStr(flight, "alliance")
       \o t_Route \o ShownStr(flight, "from") \o t_arrow \o ShownStr(flight, "to")
       \o layover_str
       \o t_Dates \o ShownStr(flight, "departure_date")
       \o t_to \o ShownStr(flight, "return_date")
       \o t_Price \o ShownInt(flight, "price_usd")
       \o t_Refundable \o refundable \o t_newline

\* list[:stop]: the first stop entries, all but the last -stop when stop < 0.
SliceTo(list, stop) ==
    LET n == Len(list)
        k == IF stop >= 0 THEN (IF stop < n THEN stop ELSE n)
             ELSE (IF n + stop > 0 THEN n + stop ELSE 0)
    IN SubSeq(list, 1, k)

RulerWidth == 50

RECURSIVE FormatBlocks(_)
FormatBlocks(list) ==
    IF list = << >> THEN << >>
    ELSE format_flight(list[1]) \o Repeat(<<"-">>, RulerWidth) \o t_newline
         \o FormatBlocks(Tail(list))

\* The header, the blocks shown and the note of lines 105-113.
FormatNonEmpty(flights_, max_results) ==
    t_Found \o IntStr(Len(flights_)) \o t_flights
    \o Repeat(<<"=">>, RulerWidth) \o t_newline
    \o FormatBlocks(SliceTo(flights_, max_results))
    \o (IF Len(flights_) > max_results
        THEN t_ShowingTop \o IntStr(max_results) \o t_of
             \o IntStr(Len(flights_)) \o t_results
        ELSE << >>)

\* Mutant of format_flights_list: an empty list formatted like any other.
format_flights_list_unguarded(flights_, max_results) ==
    FormatNonEmpty(flights_, max_results)

\* utils.format_flights_list
format_flights_list(flights_, max_results) ==
    IF flights_ = << >> THEN NoFlightsMessage
    ELSE FormatNonEmpty(flights_, max_results)

\* ------------------------------------------------------------- the searcher
Callers == 1..NumCallers

VARIABLES
    file,       \* the catalog file on disk when the searcher is built
    searcher,   \* "none": not built; "ready": FlightSearcher and its tool exist;
                \* "failed": construction raised
    load_error, \* the exception construction raised, "none" otherwise
    objects,    \* the flight dicts json.load created
    flights,    \* FlightSearcher.flights: a list of references to them
    pc,         \* per caller: "idle", "copied" (line 50 done), "filtered", "sorted",
                \* "formatted" (the tool has its text)
    crit,       \* per caller: the arguments of its call in progress
    work,       \* per caller: the local name results of its call in progress
    outcome,    \* per caller, of its last call: "none" while it runs, "returned",
                \* or the exception that escaped
    memo,       \* history: the criteria and the result of one earlier call
    via,        \* per caller: "search" for a direct call of search,
                \* "search_flights" for a call through the tool, else "none"
    reply,      \* per caller: the text search_flights is about to return
    fn_args,    \* the arguments of a function applied on its own
    fn_result   \* its result, None until it is applied

fnvars == <<fn_args, fn_result>>

vars ==
    <<file, searcher, load_error, objects, flights, pc, crit, work, outcome,
      memo, via, reply, fn_args, fn_result>>

\* Mutant of ListCopy: results = self.flights, the catalog list itself.
ListAlias(list) == [results |-> list, aliased |-> TRUE]

\* results = self.flights.copy(): a new list object holding the same references.
ListCopy(list) == [results |-> list, aliased |-> FALSE]

NoWork == [results |-> << >>, aliased |-> FALSE]

\* The progress record of caller t at its next step: its results (the list
\* self.flights itself while aliased) and self.flights as they are now.
Progress(t) ==
    [results |-> IF work[t].aliased THEN flights ELSE work[t].results,
     aliased |-> work[t].aliased, flights |-> flights, raised |-> "none"]

\* FlightSearcher.search as one call running alone on the catalog flights_ of
\* the dicts objs: the progress record at its end (results is the list
\* returned unless raised names an exception).
search(objs, flights_, c) ==
    LET copy == ListCopy(flights_)
    IN SortInPlace(objs, ApplyFilters(objs, [results |-> copy.results,
                                             aliased |-> copy.aliased,
                                             flights |-> flights_,
                                             raised |-> "none"], c))

NoMemo == [set |-> FALSE]

Init ==
    /\ file \in CatalogFiles
    /\ searcher = "none"
    /\ load_error = "none"
    /\ objects = << >>
    /\ flights = << >>
    /\ pc = [t \in Callers |-> "idle"]
    /\ crit = [t \in Callers |-> NoCriteria]
    /\ work = [t \in Callers |-> NoWork]
    /\ outcome = [t \in Callers |-> "none"]
    /\ memo = NoMemo
    /\ via = [t \in Callers |-> "none"]
    /\ reply = [t \in Callers |-> PyNone]
    /\ fn_args = PyNone
    /\ fn_result = PyNone

\* create_flight_search_tool -> FlightSearcher.__init__: load the catalog; an
\* exception of load_json_file propagates and no searcher (no tool) exists.
Construct ==
    /\ searcher = "none"
    /\ LET r == load_json_file(file)
       IN IF r.raised # "none"
          THEN /\ searcher' = "failed"
               /\ load_error' = r.raised
               /\ UNCHANGED <<objects, flights>>
          ELSE /\ searcher' = "ready"
               /\ objects' = r.value
               /\ flights' = [i \in 1..Len(r.value) |-> i]
               /\ UNCHANGED load_error
    /\ UNCHANGED <<file, pc, crit, work, outcome, memo, via, reply, fnvars>>

\* search(...), line 50: a call with criteria drawn from C starts with a copy
\* of the catalog.
Call(t, C) ==
    /\ searcher = "ready"
    /\ pc[t] = "idle"
    /\ \E c \in C : crit' = [crit EXCEPT ![t] = c]
    /\ pc' = [pc EXCEPT ![t] = "copied"]
    /\ work' = [work EXCEPT ![t] = ListCopy(flights)]
    /\ outcome' = [outcome EXCEPT ![t] = "none"]
    /\ via' = [via EXCEPT ![t] = "search"]
    /\ UNCHANGED <<file, searcher, load_error, objects, flights, memo, reply, fnvars>>

\* search_flights(query), lines 168-231: the tool calls search with the
\* criteria it extracted from its query, one of extracted.
SearchFlights(t, extracted) ==
    /\ searcher = "ready"
    /\ pc[t] = "idle"
    /\ \E c \in extracted : crit' = [crit EXCEPT ![t] = c]
    /\ pc' = [pc EXCEPT ![t] = "copied"]
    /\ work' = [work EXCEPT ![t] = ListCopy(flights)]
    /\ outcome' = [outcome EXCEPT ![t] = "none"]
    /\ via' = [via EXCEPT ![t] = "search_flights"]
    /\ UNCHANGED <<file, searcher, load_error, objects, flights, memo, reply, fnvars>>

\* The exception st.raised escapes the call of caller t.
Escapes(t, st) ==
    /\ pc' = [pc EXCEPT ![t] = "idle"]
    /\ outcome' = [outcome EXCEPT ![t] = st.raised]
    /\ work' = [work EXCEPT ![t] = NoWork]
    /\ crit' = [crit EXCEPT ![t] = NoCriteria]
    /\ via' = [via EXCEPT ![t] = "none"]

\* search, lines 52-117: the filters.
Filter(t) ==
    /\ pc[t] = "copied"
    /\ LET st == ApplyFilters(objects, Progress(t), crit[t])
       IN /\ flights' = st.flights
          /\ IF st.raised # "none"
             THEN Escapes(t, st)
             ELSE /\ pc' = [pc EXCEPT ![t] = "filtered"]
                  /\ work' = [work EXCEPT ![t] = [results |-> st.results,
                                                  aliased |-> st.aliased]]
                  /\ UNCHANGED <<outcome, crit, via>>
    /\ UNCHANGED <<file, searcher, load_error, objects, memo, reply, fnvars>>

\* search, lines 119-120: sort the list that results names, in place.
Sort(t) ==
    /\ pc[t] = "filtered"
    /\ LET st == SortInPlace(objects, Progress(t))
       IN /\ flights' = st.flights
          /\ IF st.raised # "none"
             THEN Escapes(t, st)
             ELSE /\ pc' = [pc EXCEPT ![t] = "sorted"]
                  /\ work' = [work EXCEPT ![t] = [results |-> st.results,
                                                  aliased |-> st.aliased]]
                  /\ UNCHANGED <<outcome, crit, via>>
    /\ UNCHANGED <<file, searcher, load_error, objects, memo, reply, fnvars>>

\* search, line 122: return results (the list work[t].results of the "sorted"
\* state); the call's frame, its arguments and the name results, is gone.
Returning(t) ==
    /\ pc[t] = "sorted"
    /\ via[t] = "search"
    /\ via' = [via EXCEPT ![t] = "none"]
    /\ pc' = [pc EXCEPT ![t] = "idle"]
    /\ outcome' = [outcome EXCEPT ![t] = "returned"]
    /\ work' = [work EXCEPT ![t] = NoWork]
    /\ crit' = [crit EXCEPT ![t] = NoCriteria]
    /\ UNCHANGED <<file, searcher, load_error, objects, flights, reply, fnvars>>

Return(t) == Returning(t) /\ UNCHANGED memo

\* The same return, observed: the history variable keeps the call's criteria
\* and the list it returned, to compare later calls with.
ObservedReturn(t) ==
    /\ ~memo.set
    /\ Returning(t)
    /\ memo' = [set |-> TRUE, crit |-> crit[t], results |-> Progress(t).results]

\* search_flights hands format_flights_list the list search returned and at
\* most this many are shown.
ToolMaxResults == 5

\* search_flights, lines 220-235: search has returned its list to the tool,
\* which formats it.
Format(t) ==
    /\ pc[t] = "sorted"
    /\ via[t] = "search_flights"
    /\ LET results == Progress(t).results
           dicts == [k \in 1..Len(results) |-> objects[results[k]]]
       IN reply' = [reply EXCEPT ![t] = Val(format_flights_list(dicts, ToolMaxResults))]
    /\ pc' = [pc EXCEPT ![t] = "formatted"]
    /\ UNCHANGED <<file, searcher, load_error, objects, flights, crit, work,
                   outcome, memo, via, fnvars>>

\* search_flights, line 235: the tool returns the text.
Reply(t) ==
    /\ pc[t] = "formatted"
    /\ pc' = [pc EXCEPT ![t] = "idle"]
    /\ outcome' = [outcome EXCEPT ![t] = "returned"]
    /\ work' = [work EXCEPT ![t] = NoWork]
    /\ crit' = [crit EXCEPT ![t] = NoCriteria]
    /\ via' = [via EXCEPT ![t] = "none"]
    /\ reply' = [reply EXCEPT ![t] = PyNone]
    /\ UNCHANGED <<file, searcher, load_error, objects, flights, memo, fnvars>>

\* One caller at a time (the interactive loop of main.py).
Next ==
    \/ Construct
    \/ Call(1, AllCriteria)
    \/ SearchFlights(1, QueryCriteria)
    \/ Filter(1)
    \/ Sort(1)
    \/ Return(1)
    \/ Format(1)
    \/ Reply(1)

Spec == Init /\ [][Next]_vars

\* Several callers of the one searcher at once (the tool closes over a single
\* FlightSearcher), their steps interleaved in any order. The catalogs are
\* made of a refundable flight, a dearer one that is not, and a record with a
\* null price; the criteria leave the list unfiltered or filter it.
ConcSample == {1, 2, 7}

ConcCriteria ==
    {NoCriteria,
     [NoCriteria EXCEPT !.max_price = Val(650)]}

\* The query the concurrent callers put to the tool.
ConcQueries == {Q_RefundableParis}

ConcQueryCriteria == ExtractedCriteria(ConcQueries)

ConcInit == Init /\ (file.kind = "json" => file.data \in CatalogsOf(ConcSample))

NextConc ==
    \/ Construct
    \/ \E t \in Callers :
        \/ Call(t, ConcCriteria)
        \/ SearchFlights(t, ConcQueryCriteria)
        \/ Filter(t)
        \/ Sort(t)
        \/ Return(t)
        \/ ObservedReturn(t)
        \/ Format(t)
        \/ Reply(t)

ConcSpec == ConcInit /\ [][NextConc]_vars

\* ------------------------------------------------- functions on their own
\* The lists handed to format_flights_list: n sample flights, taken in turn
\* from the k-th on and numbered from 1.
RankedLists ==
    {[i \in 1..n |->
         [SampleFlights[((i + k) % Len(SampleFlights)) + 1] EXCEPT !.flight_id = Val(i)]] :
        n \in 0..MaxRanked, k \in 1..Len(SampleFlights)}

\* The display counts handed to it: max_results is an int, nothing more.
DisplayCounts == (0 - 2)..(MaxRanked + 2)

FormatInputs ==
    [kind : {"format_flights_list"}, flights : RankedLists, max_results : DisplayCounts]

\* No searcher is built and no caller calls.
NoSession ==
    /\ file = [kind |-> "missing"]
    /\ searcher = "none"
    /\ load_error = "none"
    /\ objects = << >>
    /\ flights = << >>
    /\ pc = [t \in Callers |-> "idle"]
    /\ crit = [t \in Callers |-> NoCriteria]
    /\ work = [t \in Callers |-> NoWork]
    /\ outcome = [t \in Callers |-> "none"]
    /\ memo = NoMemo
    /\ via = [t \in Callers |-> "none"]
    /\ reply = [t \in Callers |-> PyNone]

\* The query texts handed to the criteria extraction: the query of section
\* 8 of the specification, and at most MaxFragments fragments with a space
\* between them.
Q_DirectParis700 ==
    <<"d","i","r","e","c","t"," ","f","l","i","g","h","t","s"," ","t","o",
      " ","P","a","r","i","s"," ","u","n","d","e","r"," ","$","7","0","0">>

Fragments ==
    { <<"d","i","r","e","c","t">>,
      <<"n","o","n","-","s","t","o","p">>,
      <<"n","o","n","s","t","o","p">>,
      <<"1"," ","l","a","y","o","v","e","r">>,
      <<"o","n","e"," ","l","a","y","o","v","e","r">>,
      <<"u","n","d","e","r">>,
      <<"l","e","s","s"," ","t","h","a","n">>,
      <<"b","e","l","o","w">>,
      <<"$","7","0","0">>,
      <<"4","5">>,
      <<"1","2","3","4","5">>,
      <<"P","a","r","i","s">>,
      <<"t","o","k","y","o">>,
      <<"S","e","o","u","l">>,
      <<"N","e","w"," ","Y","o","r","k">>,
      <<"A","u","g","u","s","t">>,
      <<"m","a","y">>,
      <<"f","l","i","g","h","t","s"," ","t","o">> }

QueryTexts ==
    {Q_DirectParis700}
    \cup {Join(q, <<" ">>) : q \in SeqsUpTo(Fragments, MaxFragments)}

ExtractInputs == [kind : {"search_flights"}, query : QueryTexts, year : ClockYears]

FnInit ==
    /\ NoSession
    /\ fn_args \in FormatInputs \cup ExtractInputs
    /\ fn_result = PyNone

\* format_flights_list(flights, max_results)
FormatList ==
    /\ fn_result = PyNone
    /\ fn_args.kind = "format_flights_list"
    /\ fn_result' = Val(format_flights_list(fn_args.flights, fn_args.max_results))
    /\ UNCHANGED <<file, searcher, load_error, objects, flights, pc, crit, work,
                   outcome, memo, via, reply, fn_args>>

\* search_flights(query), lines 168-218, in a year of the clock: the criteria.
Extract ==
    /\ fn_result = PyNone
    /\ fn_args.kind = "search_flights"
    /\ fn_result' = Val(ExtractCriteria(fn_args.query, fn_args.year))
    /\ UNCHANGED <<file, searcher, load_error, objects, flights, pc, crit, work,
                   outcome, memo, via, reply, fn_args>>

NextFn ==
    \/ FormatList
    \/ Extract

FnSpec == FnInit /\ [][NextFn]_vars

\* ------------------------------------------------------------------- claims
\* The list a call in its "sorted" state is about to return, and its records.
ResultOf(t) == work[t].results
ResultSet(t) == {work[t].results[k] : k \in 1..Len(work[t].results)}

\* The catalog as it was loaded: the file's records, in the file's order.
CatalogAsLoaded ==
    /\ objects = file.data
    /\ flights = [i \in 1..Len(file.data) |-> i]

\* c sets the field named key and nothing else.
OnlySet(c, key) == c[key] # NoCriteria[key] /\ c = [NoCriteria EXCEPT ![key] = c[key]]

\* The predicates of the specification, one per criteria field (section 4.2),
\* an absent or null field of the record taken as its documented default.
TextHas(field, wanted) == IsVal(field) /\ Contains(Lower(field.v), Lower(wanted))
HasPrice(f) == IsVal(f.price_usd)
DateOf(f) == parse_date(DictGet(f, "departure_date", PyNone))
LayoverCount(f) == IF IsVal(f.layovers) THEN Len(f.layovers.v) ELSE 0

Satisfies(f, c) ==
    /\ c.origin # PyNone => TextHas(f.from, c.origin.v)
    /\ c.destination # PyNone => TextHas(f.to, c.destination.v)
    /\ c.departure_month # PyNone =>
           DateOf(f).ok /\ DateOf(f).month = c.departure_month.v
    /\ c.departure_year # PyNone =>
           DateOf(f).ok /\ DateOf(f).year = c.departure_year.v
    /\ c.alliance # PyNone => TextHas(f.alliance, c.alliance.v)
    /\ c.airline # PyNone => TextHas(f.airline, c.airline.v)
    /\ c.max_price # PyNone => HasPrice(f) /\ f.price_usd.v <= c.max_price.v
    /\ c.refundable_only => f.refundable = Val(TRUE)
    /\ c.avoid_overnight_layover => f.overnight_layover # Val(TRUE)
    /\ c.max_layovers # PyNone => LayoverCount(f) <= c.max_layovers.v

\* C1: the result of a search is exactly the catalog flights that satisfy the
\* predicate of every field the caller set, each set field imposing its own
\* constraint whatever the other fields are.
C1_ConjunctionOfSetFields ==
    \A t \in Callers :
        pc[t] = "sorted" =>
            ResultSet(t) = {i \in DOMAIN objects : Satisfies(objects[i], crit[t])}

\* a comes before b in a list ordered ascending by price, flights lacking a
\* price last, ties in catalog order.
InPriceOrder(a, b) ==
    LET fa == objects[a]
        fb == objects[b]
    IN IF HasPrice(fa) /\ HasPrice(fb)
       THEN fa.price_usd.v < fb.price_usd.v \/ (fa.price_usd.v = fb.price_usd.v /\ a < b)
       ELSE IF HasPrice(fa) THEN TRUE
       ELSE IF HasPrice(fb) THEN FALSE
       ELSE a < b

\* C2: a search with every field unset returns every catalog record exactly
\* once, ascending by price, records lacking a price after all priced ones,
\* equal prices (or two records lacking one) in catalog order.
C2_AllUnsetReturnsCatalogByPrice ==
    \A t \in Callers :
        pc[t] = "sorted" /\ crit[t] = NoCriteria =>
            /\ Len(ResultOf(t)) = Len(objects)
            /\ ResultSet(t) = DOMAIN objects
            /\ \A j, k \in 1..Len(ResultOf(t)) :
                   j < k => InPriceOrder(ResultOf(t)[j], ResultOf(t)[k])

\* An unfiltered search of a two-record catalog whose first record lacks a
\* price: the sort moved it behind the priced one.
C2_Witness ==
    \E t \in Callers :
        /\ pc[t] = "sorted" /\ crit[t] = NoCriteria
        /\ Len(objects) = 2
        /\ objects[1].price_usd = Absent /\ HasPrice(objects[2])
        /\ ResultOf(t) = <<2, 1>>

\* C3: no search changes the catalog: FlightSearcher.flights holds the records
\* of the file, with their field values, in the file's order, at every point
\* of every sequence of calls.
C3_CatalogNeverMutated == searcher = "ready" => CatalogAsLoaded

\* A call that sorted its list into an order other than the catalog's.
C3_Witness ==
    \E t \in Callers :
        /\ pc[t] = "sorted"
        /\ Len(ResultOf(t)) = Len(flights)
        /\ ResultOf(t) # flights

\* C4: no exception escapes a search call, whatever malformed records the
\* catalog holds: every call ends by returning a list.
C4_NoExceptionEscapes ==
    \A t \in Callers : outcome[t] \in {"none", "returned"}

\* C5: with only max_price = m set, the result is exactly the flights that
\* have a price and whose price is at most m.
C5_MaxPriceOnly ==
    \A t \in Callers :
        pc[t] = "sorted" /\ OnlySet(crit[t], "max_price") =>
            ResultSet(t) = {i \in DOMAIN objects :
                               /\ HasPrice(objects[i])
                               /\ objects[i].price_usd.v <= crit[t].max_price.v}

\* A ceiling of 0 over a catalog with a flight priced 0 and a flight with no
\* price: the first is returned, the second is not.
C5_Witness ==
    \E t \in Callers :
        /\ pc[t] = "sorted" /\ OnlySet(crit[t], "max_price")
        /\ crit[t].max_price = Val(0)
        /\ \E i \in DOMAIN objects : objects[i].price_usd = Absent
        /\ ResultSet(t) # {}

\* f's departure date parses and falls in the month and the year asked for.
DateMatches(f, month, year) ==
    DateOf(f).ok /\ DateOf(f).month = month /\ DateOf(f).year = year

\* C6: under a month/year filter (both set) every flight returned has a
\* departure date that parses and lies in that month and year, and with no
\* other field set the result is exactly those flights: a flight whose date
\* is absent or does not parse is never returned.
C6_DateFilter ==
    \A t \in Callers :
        (/\ pc[t] = "sorted"
         /\ crit[t].departure_month # PyNone
         /\ crit[t].departure_year # PyNone) =>
            LET c == crit[t]
                matching == {i \in DOMAIN objects :
                                DateMatches(objects[i], c.departure_month.v,
                                            c.departure_year.v)}
            IN /\ ResultSet(t) \subseteq matching
               /\ c = [NoCriteria EXCEPT !.departure_month = c.departure_month,
                                         !.departure_year = c.departure_year]
                      => ResultSet(t) = matching

\* A month/year search that returned a flight from a catalog holding a flight
\* whose date is absent or is no date.
C6_Witness ==
    \E t \in Callers :
        /\ pc[t] = "sorted"
        /\ crit[t].departure_month # PyNone /\ crit[t].departure_year # PyNone
        /\ \E i \in DOMAIN objects :
               objects[i].departure_date \in {Absent, PyNone, Val(DateTBD)}
        /\ ResultSet(t) # {}

\* C7: with only refundable_only set, the result is exactly the flights whose
\* refundable field is true; a flight without the field is not returned.
C7_RefundableOnly ==
    \A t \in Callers :
        pc[t] = "sorted" /\ OnlySet(crit[t], "refundable_only") =>
            ResultSet(t) = {i \in DOMAIN objects : objects[i].refundable = Val(TRUE)}

\* A refundable-only search that returned a flight from a catalog holding a
\* flight with no refundable field.
C7_Witness ==
    \E t \in Callers :
        /\ pc[t] = "sorted" /\ OnlySet(crit[t], "refundable_only")
        /\ \E i \in DOMAIN objects : objects[i].refundable = Absent
        /\ ResultSet(t) # {}

\* C8: a call returns the same sequence as an earlier call with the same
\* criteria, whatever calls ran in between or run beside it.
C8_Idempotent ==
    \A t \in Callers :
        (pc[t] = "sorted" /\ memo.set /\ memo.crit = crit[t]) =>
            ResultOf(t) = memo.results

\* A call about to return a non-empty list for criteria an earlier call was
\* observed with, after another caller ran a search with other criteria.
C8_Witness ==
    \E t, u \in Callers :
        /\ t # u
        /\ pc[t] = "sorted" /\ memo.set /\ memo.crit = crit[t]
        /\ ResultOf(t) # << >>
        /\ pc[u] = "sorted" /\ crit[u] # crit[t]

\* C9: however the steps of concurrent calls interleave, each call returns
\* the list it returns when run alone on the loaded catalog, and the catalog
\* stays as loaded.
C9_NoInterference ==
    /\ \A t \in Callers :
           pc[t] = "sorted" =>
               LET alone == search(file.data, [i \in 1..Len(file.data) |-> i], crit[t])
               IN alone.raised = "none" /\ ResultOf(t) = alone.results
    /\ searcher = "ready" => CatalogAsLoaded

\* Two calls with different criteria in progress at once, one sorted and the
\* other between its copy and its sort, on a catalog of two or more records.
C9_Witness ==
    \E t, u \in Callers :
        /\ t # u
        /\ pc[t] = "sorted" /\ pc[u] \in {"copied", "filtered"}
        /\ crit[t] # crit[u]
        /\ Len(ResultOf(t)) >= 2

\* C10: with a catalog file that is missing or does not parse, construction
\* ends with the error raised to the caller, no searcher exists, no catalog is
\* held (not even an empty one) and no search call ever starts.
C10_LoadFailureIsFatal ==
    file.kind # "json" =>
        /\ searcher \in {"none", "failed"}
        /\ searcher = "failed" =>
               load_error = (IF file.kind = "missing" THEN "FileNotFoundError"
                             ELSE "ValueError")
        /\ objects = << >> /\ flights = << >>
        /\ \A t \in Callers : pc[t] = "idle" /\ outcome[t] = "none"

\* Construction was attempted on a file that does not parse and failed.
C10_Witness ==
    file.kind = "invalid" /\ searcher = "failed" /\ load_error = "ValueError"

\* The text starts with prefix, ends with suffix.
StartsWith(text, prefix) ==
    Len(text) >= Len(prefix) /\ SubSeq(text, 1, Len(prefix)) = prefix
EndsWith(text, suffix) ==
    Len(text) >= Len(suffix)
    /\ SubSeq(text, Len(text) - Len(suffix) + 1, Len(text)) = suffix

\* The number of flight blocks of a text: the places where a line begins
\* "Flight ".
BlockCount(text) ==
    Cardinality({i \in 1..(Len(text) - Len(t_Flight) + 1) :
                    SubSeq(text, i, i + Len(t_Flight) - 1) = t_Flight})

HeaderOf(n) == t_Found \o IntStr(n) \o t_flights
NoteOf(m, n) == t_ShowingTop \o IntStr(m) \o t_of \o IntStr(n) \o t_results
HasNote(text) == EndsWith(text, t_results)
Min(a, b) == IF a <= b THEN a ELSE b

\* A list of n >= 1 flights formatted with display count m.
Formatted(n, m) ==
    /\ fn_args.kind = "format_flights_list"
    /\ fn_result # PyNone
    /\ Len(fn_args.flights) = n
    /\ fn_args.max_results = m

\* C11: a non-empty list of n flights formatted with any display count m
\* shows n in the header, exactly min(n, m) blocks and never more than m,
\* and a trailing note iff n > m, the note naming m and n.
C11_TruncationToMaxResults ==
    \A n \in 1..(MaxRanked + 1), m \in (0 - 3)..(MaxRanked + 3) :
        Formatted(n, m) =>
            LET text == fn_result.v
            IN /\ StartsWith(text, HeaderOf(n))
               /\ BlockCount(text) = Min(n, m)
               /\ BlockCount(text) <= m
               /\ HasNote(text) <=> n > m
               /\ HasNote(text) => EndsWith(text, NoteOf(m, n))

\* C12: a query whose search finds no flight, on any catalog, the empty one
\* included, gets the fixed no-results message from search_flights: not an
\* empty string, and nothing is raised.
C12_NoMatchMessage ==
    \A t \in Callers :
        (pc[t] = "formatted" /\ ResultOf(t) = << >>) =>
            /\ reply[t] = Val(NoFlightsMessage)
            /\ reply[t].v # << >>
            /\ outcome[t] = "none"

\* A query that names a destination, put to a catalog that has flights, none
\* of them matching.
C12_Witness ==
    \E t \in Callers :
        /\ pc[t] = "formatted" /\ ResultOf(t) = << >>
        /\ flights # << >>
        /\ crit[t].destination # PyNone

\* A text handed to the criteria extraction, and the criteria it gave.
Extracted == fn_args.kind = "search_flights" /\ fn_result # PyNone

\* C13: "direct flights to Paris under $700" yields destination Paris, at
\* most 0 layovers, a price ceiling of 700 and every other field unset.
C13_DirectParisUnder700 ==
    (Extracted /\ fn_args.query = Q_DirectParis700) =>
        fn_result.v = [NoCriteria EXCEPT !.destination = Val(Paris),
                                         !.max_layovers = Val(0),
                                         !.max_price = Val(700)]

C13_Witness ==
    /\ Extracted /\ fn_args.query = Q_DirectParis700
    /\ fn_result.v.destination = Val(Paris)

\* C14: with only avoid_overnight_layover set, a flight is left out iff its
\* overnight_layover is present and true; a flight with an empty layovers
\* list and no overnight_layover key is returned.
C14_AvoidOvernight ==
    \A t \in Callers :
        (pc[t] = "sorted" /\ OnlySet(crit[t], "avoid_overnight_layover")) =>
            ResultSet(t) =
                {i \in DOMAIN objects : objects[i].overnight_layover # Val(TRUE)}

\* Such a search over a catalog with an overnight flight, which is left out,
\* and a flight with no layovers and no overnight_layover key, which is not.
C14_Witness ==
    \E t \in Callers :
        /\ pc[t] = "sorted" /\ OnlySet(crit[t], "avoid_overnight_layover")
        /\ \E i \in DOMAIN objects :
               /\ objects[i].overnight_layover = Val(TRUE)
               /\ i \notin ResultSet(t)
        /\ \E i \in ResultSet(t) :
               /\ objects[i].overnight_layover = Absent
               /\ objects[i].layovers = Val(<< >>)

\* The runs of consecutive digits of a text, each as <<start, length>>: the
\* digits from start on, with no digit before them and none after.
DigitRuns(text) ==
    {r \in (1..Len(text)) \X (1..Len(text)) :
        /\ r[1] + r[2] - 1 <= Len(text)
        /\ \A i \in r[1]..(r[1] + r[2] - 1) : IsDigit(text[i])
        /\ r[1] = 1 \/ ~IsDigit(text[r[1] - 1])
        /\ r[1] + r[2] - 1 = Len(text) \/ ~IsDigit(text[r[1] + r[2]])}

\* Those of 3 or 4 digits.
PriceRuns(text) == {r \in DigitRuns(text) : r[2] \in {3, 4}}

FirstRun(runs) == CHOOSE r \in runs : \A q \in runs : r[1] <= q[1]

HasPriceTrigger(text) ==
    \/ Contains(Lower(text), k_under)
    \/ Contains(Lower(text), k_less_than)
    \/ Contains(Lower(text), k_below)

\* C15: for every query text, max_price is set iff the lower-cased text has
\* "under", "less than" or "below" and the text has a run of 3 or 4
\* consecutive digits, and it is then the number of the first such run.
C15_PriceCeilingExtraction ==
    Extracted =>
        LET text == fn_args.query
            runs == PriceRuns(text)
            first == FirstRun(runs)
        IN /\ fn_result.v.max_price # PyNone <=> (HasPriceTrigger(text) /\ runs # {})
           /\ fn_result.v.max_price # PyNone =>
                  fn_result.v.max_price.v
                      = DigitsValue(SubSeq(text, first[1], first[1] + first[2] - 1))

\* C16: for every query text, max_layovers is 0 if the text has "direct",
\* "non-stop" or "nonstop", also when it has "1 layover" or "one layover";
\* otherwise 1 if it has one of these two; otherwise unset.
C16_MaxLayoversPriority ==
    Extracted =>
        LET lowered == Lower(fn_args.query)
            direct == \E k \in {k_direct, k_non_stop, k_nonstop} : Contains(lowered, k)
            one == \E k \in {k_1_layover, k_one_layover} : Contains(lowered, k)
        IN /\ direct => fn_result.v.max_layovers = Val(0)
           /\ (~direct /\ one) => fn_result.v.max_layovers = Val(1)
           /\ (~direct /\ ~one) => fn_result.v.max_layovers = PyNone

\* A text with "direct" and "1 layover" both.
C16_Witness ==
    /\ Extracted
    /\ Contains(Lower(fn_args.query), k_direct)
    /\ Contains(Lower(fn_args.query), k_1_layover)
    /\ fn_result.v.max_layovers = Val(0)

\* The allow-list of destinations in title case, in its order.
DestinationNames ==
    << <<"T","o","k","y","o">>,
       <<"P","a","r","i","s">>,
       <<"L","o","n","d","o","n">>,
       <<"N","e","w"," ","Y","o","r","k">>,
       <<"B","a","n","g","k","o","k">>,
       <<"H","o","n","g"," ","K","o","n","g">>,
       <<"S","e","o","u","l">>,
       <<"T","a","i","p","e","i">>,
       <<"T","o","r","o","n","t","o">>,
       <<"H","e","l","s","i","n","k","i">>,
       <<"Z","u","r","i","c","h">>,
       <<"K","u","a","l","a"," ","L","u","m","p","u","r">> >>

\* C17: for every query text, destination is the title-cased first entry of
\* the allow-list that occurs in the lower-cased text, wherever in the text
\* it occurs; unset if none occurs.
C17_DestinationAllowList ==
    Extracted =>
        LET lowered == Lower(fn_args.query)
            found == {i \in 1..Len(DestinationNames) :
                         Contains(lowered, Lower(DestinationNames[i]))}
        IN IF found = {} THEN fn_result.v.destination = PyNone
           ELSE fn_result.v.destination
                    = Val(DestinationNames[CHOOSE i \in found : \A j \in found : i <= j])

\* A text that names Seoul and then Tokyo: Tokyo is earlier in the list.
C17_Witness ==
    /\ Extracted
    /\ Contains(Lower(fn_args.query), Lower(Seoul))
    /\ Contains(Lower(fn_args.query), Lower(Tokyo))
    /\ fn_args.query[1] = "S"
    /\ fn_result.v.destination = Val(Tokyo)

\* The month names, in lower case.
MonthNames == {months[i] : i \in 1..Len(months)}

\* C18: the criteria extracted from any query text have departure_month and
\* departure_year both set or both unset, the month set iff a month name
\* occurs in the lower-cased text and the year then the current year; so the
\* date filter of search applies to them exactly when a month name occurs.
C18_MonthAndYearTogether ==
    Extracted =>
        LET c == fn_result.v
            named == \E m \in MonthNames : Contains(Lower(fn_args.query), m)
        IN /\ c.departure_month # PyNone <=> c.departure_year # PyNone
           /\ c.departure_month # PyNone <=> named
           /\ named => c.departure_year = Val(fn_args.year)
           /\ DateFilterApplies(c) <=> named

\* A text that names a month.
C18_Witness ==
    /\ Extracted
    /\ \E m \in MonthNames : Contains(Lower(fn_args.query), m)
    /\ DateFilterApplies(fn_result.v)

====
